---- MODULE Spec2Model ----
(***************************************************************************)
(* Flowgic: the Order / Financial / OrderEvent bookkeeping of the          *)
(* logistics application, modelled from src/src/logistics/models.py and    *)
(* src/src/logistics/views.py.                                             *)
(*                                                                         *)
(* Money is counted in hundredths of a currency unit (the two decimal      *)
(* places of the DecimalFields), distances in hundredths of a kilometre.   *)
(* A nullable column holds None (the empty tuple) or Some(v) == <<v>>.     *)
(***************************************************************************)
EXTENDS Integers, Sequences, FiniteSets, TLC

VARIABLES users, orders, financials, events, now, last, inflight

vars == <<users, orders, financials, events, now, last, inflight>>

None == <<>>
Some(v) == <<v>>

(***************************************************************************)
(* Bounds of the model.                                                    *)
(***************************************************************************)
\* rows the order_events table may hold before handlers that append stop
MaxEvents == 2

(***************************************************************************)
(* accounts.User                                                           *)
(***************************************************************************)
UserIds == {"dispatcher_a", "manager_a", "driver_a", "dispatcher_b", "driver_b"}

\* a request without a session (login_required redirects it)
Anonymous == "anonymous"

\* the server's request workers; inflight[w] is what worker w holds in memory
\* between the reads and the writes of the request it is serving
Workers == {"w1", "w2"}

\* User.username: the class attribute replaces AbstractUser's field, so every
\* account reads None
User_username == None

User(role, company, email) ==
    [role |-> role, company |-> company, email |-> email, username |-> User_username]

\* the accounts of conftest.py
InitUsers ==
    [u \in UserIds |->
        CASE u = "dispatcher_a" -> User("dispatcher", "company_a", "dispatcher_a@test.com")
          [] u = "manager_a"    -> User("manager", "company_a", "manager_a@test.com")
          [] u = "driver_a"     -> User("driver", "company_a", "driver_a@test.com")
          [] u = "dispatcher_b" -> User("dispatcher", "company_b", "dispatcher_b@test.com")
          [] u = "driver_b"     -> User("driver", "company_b", "driver_b@test.com")]

\* the accounts a driver field may name (limit_choices_to role = driver)
Drivers == {u \in UserIds : InitUsers[u].role = "driver"}

(***************************************************************************)
(* logistics.Company, Client, Vehicle: the rows of conftest.py             *)
(***************************************************************************)
Companies == {"company_a", "company_b"}

\* Client.company
ClientCompany == [client_a |-> "company_a", client_b |-> "company_b"]

Clients == DOMAIN ClientCompany

Vehicles == {"vehicle_a", "vehicle_b"}

(***************************************************************************)
(* logistics.Order                                                         *)
(***************************************************************************)
OrderIds == {"order_a", "order_b"}

\* an id no order has (get_object_or_404 answers 404)
MissingOrder == "order_x"

\* Order.Status.choices
OrderStatus ==
    {"created", "assigned", "loading", "in_transit", "delivered", "completed",
     "cancelled", "delayed"}

\* distance_km values of the orders, in hundredths of a km: null, -1.00, 0.00,
\* 0.01, 0.02 and 700.00
Distances == {None, Some(-100), Some(0), Some(1), Some(2), Some(70000)}

\* agreed_price values of the orders, in hundredths: null and 50000.00
Prices == {None, Some(5000000)}

(***************************************************************************)
(* logistics.Financial                                                     *)
(***************************************************************************)
PaymentStatus == {"unpaid", "partially_paid", "paid"}

AVERAGE_FUEL_CONSUMPTION_L_PER_100KM == 30
DIESEL_PRICE_PER_LITER == 82

\* quantize num/den to an integer, ties to even: how a DecimalField value is
\* stored at its decimal_places
Quantize(num, den) ==
    LET q == num \div den
        r == num % den
    IN  IF 2 * r < den THEN q
        ELSE IF 2 * r > den THEN q + 1
        ELSE IF q % 2 = 0 THEN q ELSE q + 1

\* FuelExpenses with the test "distance is not zero" in place of "distance > 0"
FuelExpensesNonZero(d) ==
    IF d # None /\ d[1] # 0
    THEN Quantize(d[1] * AVERAGE_FUEL_CONSUMPTION_L_PER_100KM * DIESEL_PRICE_PER_LITER, 100)
    ELSE 0

\* Financial.save, the fuel part: the value kept in the fuel_expenses column
\* for an order whose distance_km is d.  (d/100) * 30 * 82 currency units is
\* d * 30 * 82 / 100 hundredths when d is in hundredths of a km.
FuelExpenses(d) ==
    IF d # None /\ d[1] > 0
    THEN Quantize(d[1] * AVERAGE_FUEL_CONSUMPTION_L_PER_100KM * DIESEL_PRICE_PER_LITER, 100)
    ELSE 0

\* third_party = self.third_party_cost or Decimal('0.00')
OrZero(x) == IF x = None \/ x[1] = 0 THEN 0 ELSE x[1]

\* Financial.save, the profit part
Profit(inst) == inst.client_cost - inst.driver_cost - OrZero(inst.third_party_cost)

\* Recompute that derives fuel_expenses only when the caller assigned none
RecomputeKeepsSupplied(inst) ==
    [inst EXCEPT !.fuel_expenses = IF inst.fuel_expenses # 0 THEN inst.fuel_expenses
                                   ELSE FuelExpenses(orders[inst.order].distance_km),
                 !.profit = Profit(inst)]

\* Financial.save up to super().save(): the instance with its derived fields
Recompute(inst) ==
    [inst EXCEPT !.fuel_expenses = FuelExpenses(orders[inst.order].distance_km),
                 !.profit = Profit(inst)]

\* the rows of the financials table that belong to order o
RowsOf(o) == {i \in DOMAIN financials : financials[i].order = o}

\* UniqueOrder with the constraint dropped
UniqueOrderUnchecked(o) == TRUE

\* the unique=True constraint of Financial.order: may a row for o be inserted?
UniqueOrder(o) == RowsOf(o) = {}

\* a new Financial instance (Financial(**kwargs)): payment_status defaults to
\* unpaid, payment_plan to null; fuel_expenses and profit are set by save
NewFinancial(o, client_cost, driver_cost, third_party_cost) ==
    [order |-> o, client_cost |-> client_cost, driver_cost |-> driver_cost,
     third_party_cost |-> third_party_cost, fuel_expenses |-> 0, profit |-> 0,
     payment_status |-> "unpaid", payment_plan |-> None]

(***************************************************************************)
(* Responses                                                               *)
(***************************************************************************)
Response(op, actor, o, code, success, error) ==
    [op |-> op, actor |-> actor, order |-> o, code |-> code, success |-> success,
     error |-> error]

(***************************************************************************)
(* Initial state: the accounts and orders of the fixtures, no Financial,   *)
(* no OrderEvent.                                                          *)
(***************************************************************************)
Init ==
    /\ users = InitUsers
    /\ \E dist \in [OrderIds -> Distances], price \in [OrderIds -> Prices] :
          orders = [o \in OrderIds |->
                      [client |-> IF o = "order_a" THEN "client_a" ELSE "client_b",
                       created_by |-> IF o = "order_a" THEN Some("dispatcher_a")
                                      ELSE Some("dispatcher_b"),
                       driver |-> IF o = "order_a" THEN Some("driver_a")
                                  ELSE Some("driver_b"),
                       vehicle |-> IF o = "order_a" THEN Some("vehicle_a")
                                   ELSE Some("vehicle_b"),
                       status |-> "created",
                       is_viewed_by_driver |-> FALSE,
                       agreed_price |-> price[o], distance_km |-> dist[o]]]
    /\ financials = <<>>
    /\ events = <<>>
    /\ now = 0
    /\ last = Response("init", Anonymous, MissingOrder, 0, FALSE, "")
    /\ inflight = [w \in Workers |-> None]

(***************************************************************************)
(* Direct use of the model layer (tests.py, factories.py)                  *)
(***************************************************************************)
\* cost figures a caller assigns, in hundredths
Costs == {500000, 1000000}
DriverCosts == {300000, 400000}
ThirdPartyCosts == {None, Some(50000)}
\* fuel_expenses a caller assigns before save
SuppliedFuel == {0, 300000}

\* Financial.objects.create(order=o, ...): save() derives the fields, then the
\* INSERT is refused with IntegrityError when the order already has a row
Financial_objects_create(o, cc, dc, tpc, fe) ==
    LET inst == Recompute([NewFinancial(o, cc, dc, tpc) EXCEPT !.fuel_expenses = fe])
    IN  /\ IF UniqueOrder(o)
           THEN /\ financials' = Append(financials, inst)
                /\ last' = Response("Financial.objects.create", Anonymous, o, 0, TRUE, "")
           ELSE /\ financials' = financials
                /\ last' = Response("Financial.objects.create", Anonymous, o, 0, FALSE,
                                    "IntegrityError")
        /\ UNCHANGED <<users, orders, events, now, inflight>>

\* financial.driver_cost = dc; financial.fuel_expenses = fe; financial.save()
\* on the row i (tests.py test_profit_recalculation_on_update)
Financial_save(i, dc, fe) ==
    /\ i \in DOMAIN financials
    /\ LET inst == Recompute([financials[i] EXCEPT !.driver_cost = dc,
                                                    !.fuel_expenses = fe])
       IN  /\ financials' = [financials EXCEPT ![i] = inst]
           /\ last' = Response("Financial.save", Anonymous, inst.order, 0, TRUE, "")
    /\ UNCHANGED <<users, orders, events, now, inflight>>

(***************************************************************************)
(* Request parsing                                                         *)
(***************************************************************************)
Methods == {"GET", "POST"}

\* who may send a request: an account, or nobody logged in
Actors == UserIds \cup {Anonymous}

\* order ids a URL may carry
OrderArgs == OrderIds \cup {MissingOrder}

\* values of the POST field 'status' ("" stands for an absent field too:
\* request.POST.get('status', ''))
StatusInputs == OrderStatus \cup {"", "  ", "pending", " loading "}

\* str.strip() on the texts the model sends
Strip(s) ==
    CASE s = "  "        -> ""
      [] s = " loading " -> "loading"
      [] s = " 100.50 "  -> "100.50"
      [] OTHER           -> s

\* values of the POST field 'fully_paid' (None: the field is absent)
FullyPaidInputs == {None, Some("true"), Some("false")}

\* values of the POST field 'partial_amount' ("" stands for an absent field)
AmountInputs == {"", "abc", "-5", "0", " 100.50 ", "1e2"}

\* Decimal(text): the amount in hundredths, or None when the constructor
\* raises decimal.InvalidOperation
Decimal(s) ==
    CASE s = "-5"     -> Some(-500)
      [] s = "0"      -> Some(0)
      [] s = "100.50" -> Some(10050)
      [] s = "1e2"    -> Some(10000)
      [] s = "1E+2"   -> Some(10000)
      [] s = "15000.00" -> Some(1500000)
      [] s = "17220.00" -> Some(1722000)
      [] s = "60000.00" -> Some(6000000)
      [] OTHER        -> None

\* str(Decimal(text)) for a text Decimal accepts
DecimalStr(s) == IF s = "1e2" THEN "1E+2" ELSE s

(***************************************************************************)
(* logistics.OrderEvent                                                    *)
(***************************************************************************)
\* OrderEvent.objects.create(order=o, event_type=t, event_data=d): one row
\* appended, created_at is the clock (auto_now_add)
OrderEvent_objects_createTwice(o, t, d) ==
    Append(Append(events, [order |-> o, event_type |-> t, event_data |-> d,
                           created_at |-> now]),
           [order |-> o, event_type |-> t, event_data |-> d, created_at |-> now])

OrderEvent_objects_create(o, t, d) ==
    Append(events, [order |-> o, event_type |-> t, event_data |-> d, created_at |-> now])

\* the last element of a non-empty sequence
Last(seq) == seq[Len(seq)]

\* the events of order o in a table, oldest first
EventsOf(tbl, o) == SelectSeq(tbl, LAMBDA e : e.order = o)

(***************************************************************************)
(* views.py                                                                *)
(***************************************************************************)
\* Financial.objects.get_or_create(order=o, defaults=...): the row of o, and
\* the table after the call; a missing row is created through Financial.save
get_or_create(o, third_party_cost) ==
    IF RowsOf(o) # {}
    THEN [table |-> financials,
          i |-> CHOOSE i \in RowsOf(o) : \A j \in RowsOf(o) : i <= j,
          created |-> FALSE]
    ELSE [table |-> Append(financials,
                      Recompute(NewFinancial(o, OrZero(orders[o].agreed_price), 0,
                                             third_party_cost))),
          i |-> Len(financials) + 1,
          created |-> TRUE]

\* MayUpdate with the role list left out
MayUpdateAnyRole(actor) == TRUE

\* the role gate of update_payment_status and update_order_status, and
\* role_required(['dispatcher', 'manager']) of update_financials
MayUpdate(actor) == users[actor].role \in {"dispatcher", "manager"}

\* ValidStatus that accepts any non-empty text
ValidStatusAny(new_status) == new_status # ""

\* update_order_status: new_status in valid_statuses
ValidStatus(new_status) == new_status \in OrderStatus

\* StatusChanged that never sees an unchanged status
StatusChangedAlways(old_status, new_status) == TRUE

\* update_order_status: old_status != new_status
StatusChanged(old_status, new_status) == old_status # new_status

\* update_order_status from new_status = request.POST.get('status') to the
\* response, for the instance `order` the view holds in memory: order.save()
\* writes every column of the instance to the row of o.
\* insert_ok: the INSERT of OrderEvent.objects.create succeeds (when it raises,
\* order.save() has been committed and the view's except answers 500)
status_save(actor, o, status_in, insert_ok, order) ==
    LET op == "update_order_status"
        new_status == Strip(status_in)
    IN
    IF new_status = "" THEN
       /\ last' = Response(op, actor, o, 400, FALSE, "Status is required")
       /\ UNCHANGED <<orders, events>>
    ELSE IF ~ValidStatus(new_status) THEN
       /\ last' = Response(op, actor, o, 400, FALSE, "Invalid status")
       /\ UNCHANGED <<orders, events>>
    ELSE IF StatusChanged(order.status, new_status) THEN
       /\ insert_ok => Len(events) < MaxEvents
       /\ orders' = [orders EXCEPT ![o] = [order EXCEPT !.status = new_status]]
       /\ IF insert_ok
          THEN /\ events' = OrderEvent_objects_create(o, "status_changed",
                               [old_status |-> order.status,
                                new_status |-> new_status,
                                user |-> users[actor].username])
               /\ last' = Response(op, actor, o, 200, TRUE, "")
          ELSE /\ events' = events
               /\ last' = Response(op, actor, o, 500, FALSE, "DatabaseError")
    ELSE
       /\ last' = Response(op, actor, o, 400, FALSE, "Status unchanged")
       /\ UNCHANGED <<orders, events>>

\* update_order_status(request, order_id) with POST field status = status_in,
\* run without another request in between
update_order_status_with(actor, o, method, status_in, insert_ok) ==
    LET op == "update_order_status"
    IN
    /\ UNCHANGED <<users, financials, now, inflight>>
    /\ IF actor = Anonymous THEN
          /\ last' = Response(op, actor, o, 302, FALSE, "login")
          /\ UNCHANGED <<orders, events>>
       ELSE IF ~MayUpdate(actor) THEN
          /\ last' = Response(op, actor, o, 403, FALSE, "Permission denied")
          /\ UNCHANGED <<orders, events>>
       ELSE IF method # "POST" THEN
          /\ last' = Response(op, actor, o, 405, FALSE, "Method not allowed")
          /\ UNCHANGED <<orders, events>>
       ELSE IF o \notin DOMAIN orders THEN
          /\ last' = Response(op, actor, o, 404, FALSE, "Not found")
          /\ UNCHANGED <<orders, events>>
       ELSE status_save(actor, o, status_in, insert_ok, orders[o])

\* update_order_status on a database that takes every INSERT
update_order_status(actor, o, method, status_in) ==
    update_order_status_with(actor, o, method, status_in, TRUE)

\* PaymentMode that looks at partial_amount before fully_paid
PaymentModePartialFirst(fully_paid_in, partial_amount) ==
    IF partial_amount # "" THEN "partial"
    ELSE IF fully_paid_in = Some("true") THEN "full"
    ELSE "none"

\* update_payment_status: which branch a request takes; fully_paid is looked
\* at first, then a non-empty partial_amount
PaymentMode(fully_paid_in, partial_amount) ==
    IF fully_paid_in = Some("true") THEN "full"
    ELSE IF partial_amount # "" THEN "partial"
    ELSE "none"

\* AmountRejected that lets a zero amount through
AmountRejectedNegative(amount) == amount < 0

\* update_payment_status: amount <= 0
AmountRejected(amount) == amount <= 0

\* the body of update_payment_status once the order is loaded
PaymentStatusChangedAlways(old_status, new_status) == TRUE

\* if old_status != financial.payment_status
PaymentStatusChanged(old_status, new_status) == old_status # new_status

\* MarkPartial that leaves a paid Financial paid
MarkPartialKeepsPaid(financial, plan) ==
    [financial EXCEPT
       !.payment_status = IF financial.payment_status = "paid" THEN "paid"
                          ELSE "partially_paid",
       !.payment_plan = Some(plan)]

\* financial.payment_status = 'partially_paid'; financial.payment_plan = {...}
MarkPartial(financial, plan) ==
    [financial EXCEPT !.payment_status = "partially_paid", !.payment_plan = Some(plan)]

\* update_payment_status from old_status = financial.payment_status to the
\* response, for the instance `financial` the view holds in memory and the
\* table as it is when financial.save() runs: save() writes every column of
\* the instance to row i
payment_save(actor, o, fully_paid_in, amount_in, insert_ok, table, i, financial) ==
    LET op == "update_payment_status"
        partial_amount == Strip(amount_in)
        mode == PaymentMode(fully_paid_in, partial_amount)
        old_status == financial.payment_status
        amount == Decimal(partial_amount)
        paid == [financial EXCEPT !.payment_status = "paid"]
        partial == MarkPartial(financial,
                               [partial_amount |-> DecimalStr(partial_amount),
                                updated_by |-> users[actor].username,
                                updated_at |-> now])
        \* financial.save() and the event written when the status changed
        \* (when the INSERT of the event raises, the outer except answers 500
        \* after financial.save() has been committed)
        Commit(inst, event_data) ==
            LET logged == PaymentStatusChanged(old_status, inst.payment_status)
            IN  /\ (logged /\ insert_ok) => Len(events) < MaxEvents
                /\ financials' = [table EXCEPT ![i] = Recompute(inst)]
                /\ events' = IF logged /\ insert_ok
                             THEN OrderEvent_objects_create(o, "payment_updated",
                                                            event_data)
                             ELSE events
                /\ last' = IF logged /\ ~insert_ok
                           THEN Response(op, actor, o, 500, FALSE, "DatabaseError")
                           ELSE Response(op, actor, o, 200, TRUE, "")
    IN
    IF mode = "full" THEN
        Commit(paid, [action |-> "marked_as_paid", user |-> users[actor].username])
    ELSE IF mode = "partial" THEN
        IF amount = None THEN
            \* decimal.InvalidOperation is no ValueError: the outer handler answers
            /\ financials' = table
            /\ events' = events
            /\ last' = Response(op, actor, o, 500, FALSE, "InvalidOperation")
        ELSE IF AmountRejected(amount[1]) THEN
            /\ financials' = table
            /\ events' = events
            /\ last' = Response(op, actor, o, 400, FALSE, "Amount must be positive")
        ELSE
            Commit(partial, [action |-> "partial_payment",
                             amount |-> DecimalStr(partial_amount),
                             user |-> users[actor].username])
    ELSE
        /\ financials' = table
        /\ events' = events
        /\ last' = Response(op, actor, o, 400, FALSE, "No payment data provided")

\* the part of update_payment_status after the role check, run without
\* another request in between: get_or_create, then the rest
payment_body(actor, o, fully_paid_in, amount_in, insert_ok) ==
    LET got == get_or_create(o, None)
    IN  payment_save(actor, o, fully_paid_in, amount_in, insert_ok,
                     got.table, got.i, got.table[got.i])

\* update_payment_status(request, order_id) with POST fields fully_paid and
\* partial_amount; insert_ok as in update_order_status_with
update_payment_status_with(actor, o, method, fully_paid_in, amount_in, insert_ok) ==
    LET op == "update_payment_status"
    IN
    /\ UNCHANGED <<users, orders, now, inflight>>
    /\ IF actor = Anonymous THEN
          /\ last' = Response(op, actor, o, 302, FALSE, "login")
          /\ UNCHANGED <<financials, events>>
       ELSE IF ~MayUpdate(actor) THEN
          /\ last' = Response(op, actor, o, 403, FALSE, "Permission denied")
          /\ UNCHANGED <<financials, events>>
       ELSE IF method # "POST" THEN
          /\ last' = Response(op, actor, o, 405, FALSE, "Method not allowed")
          /\ UNCHANGED <<financials, events>>
       ELSE IF o \notin DOMAIN orders THEN
          /\ last' = Response(op, actor, o, 404, FALSE, "Not found")
          /\ UNCHANGED <<financials, events>>
       ELSE payment_body(actor, o, fully_paid_in, amount_in, insert_ok)

\* update_payment_status on a database that takes every INSERT
update_payment_status(actor, o, method, fully_paid_in, amount_in) ==
    update_payment_status_with(actor, o, method, fully_paid_in, amount_in, TRUE)

NextModel ==
    \/ \E o \in OrderIds, cc \in Costs, dc \in DriverCosts, tpc \in ThirdPartyCosts,
          fe \in SuppliedFuel :
          Financial_objects_create(o, cc, dc, tpc, fe)
    \/ \E i \in DOMAIN financials, dc \in DriverCosts, fe \in SuppliedFuel :
          Financial_save(i, dc, fe)

\* the model layer alone: orders of every distance, agreed_price as in InitViews
\* (nothing at this layer reads it)
InitModel ==
    /\ Init
    /\ orders["order_a"].agreed_price = Some(5000000)
    /\ orders["order_b"].agreed_price = None

SpecModel == InitModel /\ [][NextModel]_vars

(***************************************************************************)
(* Properties of Financial.save and of the financials table (SpecModel)    *)
(***************************************************************************)
\* the rows a save has written
Saved(i) == i \in DOMAIN financials

\* C1: after every save of a Financial, profit = client_cost - fuel_expenses
\* - driver_cost with the fuel_expenses that save derived; third_party_cost is
\* not subtracted and the result is not floored at zero.
C1_ProfitSubtractsFuel ==
    \A i \in DOMAIN financials :
        financials[i].profit =
            financials[i].client_cost - financials[i].fuel_expenses
                - financials[i].driver_cost

C3_NoFuelWithoutDistance ==
    /\ \A i \in DOMAIN financials :
          LET d == orders[financials[i].order].distance_km
          IN  (d = None \/ d[1] <= 0) => financials[i].fuel_expenses = 0
    /\ (last.op = "Financial.save") => last.success
    /\ (last.op = "Financial.objects.create" /\ ~last.success) =>
          (last.error = "IntegrityError" /\ RowsOf(last.order) # {})

\* C3 witness: Financials saved for an order of -1.00 km and for an order
\* without a distance
C3_Witness ==
    /\ last.op \in {"Financial.save", "Financial.objects.create"}
    /\ last.success
    /\ \E i, j \in DOMAIN financials :
          /\ orders[financials[i].order].distance_km = Some(-100)
          /\ orders[financials[j].order].distance_km = None
          /\ financials[i].fuel_expenses = 0
          /\ financials[j].fuel_expenses = 0

\* C4: each Order has at most one Financial; creating a second Financial for
\* an order that has one fails and leaves the existing Financial unchanged.
C4_OneFinancialPerOrder ==
    [][ /\ \A o \in OrderIds : Cardinality(RowsOf(o)') <= 1
        /\ \A o \in OrderIds, cc \in Costs, dc \in DriverCosts,
              tpc \in ThirdPartyCosts, fe \in SuppliedFuel :
              (RowsOf(o) # {} /\ Financial_objects_create(o, cc, dc, tpc, fe)) =>
                  /\ ~last'.success
                  /\ last'.error = "IntegrityError"
                  /\ financials' = financials ]_vars

\* C4 witness: a create was refused for an order that has its Financial
C4_Witness ==
    /\ last.op = "Financial.objects.create"
    /\ last.error = "IntegrityError"
    /\ Cardinality(RowsOf(last.order)) = 1

(***************************************************************************)
(* Properties of update_order_status (SpecStatus)                          *)
(***************************************************************************)
\* The properties of a handler are stated of the steps that are a call of it:
\* for every request (actor, order, fields) a step is the handler's answer to,
\* the step has the effect claimed.  A handler writes its caller and its order
\* into the response, so only those two need be tried.

\* what identifies the account a in an event or a plan
IsActor(v, a) == v \in {Some(a), Some(users[a].email)}

\* C5: a successful transition (a dispatcher or manager, a valid new_status
\* other than the current one) sets order.status to new_status and appends
\* exactly one status_changed event holding old_status, new_status and the
\* actor.
C5_TransitionLogsActor ==
    [][ \A actor \in {last'.actor} \cap UserIds, o \in {last'.order} \cap OrderIds,
           status_in \in StatusInputs :
          ( /\ MayUpdate(actor)
            /\ Strip(status_in) \in OrderStatus
            /\ Strip(status_in) # orders[o].status
            /\ update_order_status(actor, o, "POST", status_in) ) =>
                /\ last'.success
                /\ orders'[o].status = Strip(status_in)
                /\ Len(events') = Len(events) + 1
                /\ SubSeq(events', 1, Len(events)) = events
                /\ LET e == events'[Len(events')]
                   IN  /\ e.order = o
                       /\ e.event_type = "status_changed"
                       /\ e.event_data.old_status = orders[o].status
                       /\ e.event_data.new_status = Strip(status_in)
                       /\ IsActor(e.event_data.user, actor) ]_vars

\* C6: a transition to the status the order already has is reported as a
\* failure; no order changes and no event is appended.
C6_SameStatusIsNoOp ==
    [][ \A actor \in {last'.actor} \cap UserIds, o \in {last'.order} \cap OrderIds,
           status_in \in StatusInputs :
          ( /\ MayUpdate(actor)
            /\ Strip(status_in) = orders[o].status
            /\ update_order_status(actor, o, "POST", status_in) ) =>
                /\ ~last'.success
                /\ last'.code = 400
                /\ orders' = orders
                /\ events' = events ]_vars

\* C6 witness: an order that has moved to loading was asked to move to loading
C6_Witness ==
    /\ last.op = "update_order_status"
    /\ last.error = "Status unchanged"
    /\ last.order \in OrderIds
    /\ orders[last.order].status = "loading"

\* C7: a transition to a value outside the status enum, the empty value
\* included, is rejected with a validation error; order.status is unchanged and
\* no event is appended.
C7_UnknownStatusRejected ==
    [][ \A actor \in {last'.actor} \cap UserIds, o \in {last'.order} \cap OrderIds,
           status_in \in StatusInputs :
          ( /\ MayUpdate(actor)
            /\ Strip(status_in) \notin OrderStatus
            /\ update_order_status(actor, o, "POST", status_in) ) =>
                /\ ~last'.success
                /\ last'.code = 400
                /\ orders' = orders
                /\ events' = events ]_vars

\* C7 witness: an unknown status was refused
C7_Witness ==
    /\ last.op = "update_order_status"
    /\ last.error = "Invalid status"
    /\ last.code = 400
    /\ last.order \in OrderIds

(***************************************************************************)
(* Properties of update_payment_status (SpecPayment)                       *)
(***************************************************************************)
\* C8: a fully_paid request of a dispatcher or manager leaves payment_status
\* = paid, whatever the payment_status before, the costs, or a partial_amount
\* in the same request.
C8_FullPaymentPays ==
    [][ \A actor \in {last'.actor} \cap UserIds, o \in {last'.order} \cap OrderIds,
           amount_in \in AmountInputs :
          ( /\ MayUpdate(actor)
            /\ update_payment_status(actor, o, "POST", Some("true"), amount_in) ) =>
                /\ last'.success
                /\ Cardinality(RowsOf(o)') = 1
                /\ \A i \in RowsOf(o)' : financials'[i].payment_status = "paid" ]_vars

\* C8 witness: a Financial that was partially paid (its plan is kept) is paid
C8_Witness ==
    /\ last.op = "update_payment_status"
    /\ last.success
    /\ \E i \in RowsOf(last.order) :
          /\ financials[i].payment_status = "paid"
          /\ financials[i].payment_plan # None

\* C9: a partial payment with amount <= 0 is rejected with a validation error;
\* payment_status and payment_plan of every Financial and the event log are
\* unchanged (a Financial the request had to create is unpaid without a plan).
C9_NonPositiveAmountRejected ==
    [][ \A actor \in {last'.actor} \cap UserIds, o \in {last'.order} \cap OrderIds,
           fully_paid_in \in FullyPaidInputs, amount_in \in AmountInputs :
          ( /\ MayUpdate(actor)
            /\ fully_paid_in # Some("true")
            /\ Decimal(Strip(amount_in)) # None
            /\ Decimal(Strip(amount_in))[1] <= 0
            /\ update_payment_status(actor, o, "POST", fully_paid_in, amount_in) ) =>
                /\ ~last'.success
                /\ last'.code = 400
                /\ events' = events
                /\ \A i \in DOMAIN financials : financials'[i] = financials[i]
                /\ \A i \in DOMAIN financials' :
                      i \notin DOMAIN financials =>
                          /\ financials'[i].payment_status = "unpaid"
                          /\ financials'[i].payment_plan = None ]_vars

\* C9 witness: an amount <= 0 was refused for a partially paid Financial
C9_Witness ==
    /\ last.op = "update_payment_status"
    /\ last.error = "Amount must be positive"
    /\ \E i \in RowsOf(last.order) : financials[i].payment_status = "partially_paid"

\* C10: a partial payment with amount > 0 sets payment_status to
\* partially_paid and replaces payment_plan with a record holding exactly that
\* amount and the actor; nothing of the previous plan survives.
C10_PartialPaymentPlan ==
    [][ \A actor \in {last'.actor} \cap UserIds, o \in {last'.order} \cap OrderIds,
           fully_paid_in \in FullyPaidInputs, amount_in \in AmountInputs :
          ( /\ MayUpdate(actor)
            /\ fully_paid_in # Some("true")
            /\ Decimal(Strip(amount_in)) # None
            /\ Decimal(Strip(amount_in))[1] > 0
            /\ update_payment_status(actor, o, "POST", fully_paid_in, amount_in) ) =>
                /\ last'.success
                /\ \A i \in RowsOf(o)' :
                      /\ financials'[i].payment_status = "partially_paid"
                      /\ financials'[i].payment_plan # None
                      /\ LET plan == financials'[i].payment_plan[1]
                         IN  /\ DOMAIN plan = {"partial_amount", "updated_by", "updated_at"}
                             /\ Decimal(Strip(amount_in)) = Decimal(plan.partial_amount)
                             /\ plan.updated_at = now
                             /\ IsActor(plan.updated_by, actor) ]_vars

\* the database the views start from: order_a as in conftest.py (700.00 km,
\* agreed_price 50000.00), order_b with neither a distance nor a price
InitViews ==
    /\ Init
    /\ orders["order_a"].distance_km = Some(70000)
    /\ orders["order_a"].agreed_price = Some(5000000)
    /\ orders["order_b"].distance_km = None
    /\ orders["order_b"].agreed_price = None

\* the requests sent to update_order_status: every POST of a dispatcher or
\* manager, and one request for each refusal that is decided before the POST
\* field is read (no session, a driver, a GET)
StatusRequests ==
    [actor : {"dispatcher_a", "manager_a"}, order : OrderArgs, method : {"POST"},
     status : StatusInputs]
    \cup [actor : Actors, order : OrderArgs, method : {"GET"}, status : {"assigned"}]
    \cup [actor : {"driver_a", Anonymous}, order : OrderArgs, method : {"POST"},
          status : {"assigned"}]

NextStatus ==
    \E r \in StatusRequests : update_order_status(r.actor, r.order, r.method, r.status)

SpecStatus == InitViews /\ [][NextStatus]_vars

\* the requests sent to update_payment_status: every POST of a dispatcher or
\* manager, and one request for each refusal that is decided before the POST
\* fields are read
PaymentRequests ==
    [actor : {"dispatcher_a", "manager_a"}, order : OrderArgs, method : {"POST"},
     fully_paid : FullyPaidInputs, partial_amount : AmountInputs]
    \cup [actor : Actors, order : OrderArgs, method : {"GET"},
          fully_paid : {Some("true")}, partial_amount : {""}]
    \cup [actor : {"driver_a", Anonymous}, order : OrderArgs, method : {"POST"},
          fully_paid : {Some("true")}, partial_amount : {""}]

NextPayment ==
    \E r \in PaymentRequests :
        update_payment_status(r.actor, r.order, r.method, r.fully_paid, r.partial_amount)

SpecPayment == InitViews /\ [][NextPayment]_vars

(***************************************************************************)
(* views.update_financials                                                 *)
(***************************************************************************)
\* values of the POST fields 'fuel_expenses', 'driver_cost' and 'client_cost'
\* (None: the field is absent)
FuelInputs == {None, Some("15000.00"), Some("17220.00")}

DriverCostInputs == {None, Some("15000.00"), Some("abc")}

ClientCostInputs == {None, Some("60000.00")}

\* request.POST.get(name, default): the text the view hands to Decimal
PostGet(field, default) == IF field = None THEN default ELSE field[1]

\* financials_event that overwrites the order's last financials_updated event
financials_eventReplacing(o, event_data) ==
    LET e == [order |-> o, event_type |-> "financials_updated",
              event_data |-> event_data, created_at |-> now]
        Mine(k) == events[k].order = o /\ events[k].event_type = "financials_updated"
    IN  IF \E k \in DOMAIN events : Mine(k)
        THEN [events EXCEPT ![CHOOSE k \in DOMAIN events :
                                Mine(k) /\ \A j \in DOMAIN events : Mine(j) => j <= k] = e]
        ELSE Append(events, e)

\* OrderEvent.objects.create(order=order, event_type='financials_updated', ...)
financials_event(o, event_data) ==
    OrderEvent_objects_create(o, "financials_updated", event_data)

\* SetCosts that fills a fresh Financial instead of the one that was read
SetCostsOnNewInstance(financial, client_cost, fuel_expenses, driver_cost) ==
    [NewFinancial(financial.order, client_cost, driver_cost, financial.third_party_cost)
       EXCEPT !.fuel_expenses = fuel_expenses]

\* financial.client_cost = client_cost; financial.fuel_expenses = fuel_expenses;
\* financial.driver_cost = driver_cost
SetCosts(financial, client_cost, fuel_expenses, driver_cost) ==
    [financial EXCEPT !.client_cost = client_cost,
                      !.fuel_expenses = fuel_expenses,
                      !.driver_cost = driver_cost]

\* the view after get_object_or_404; amounts in event_data are the numbers the
\* texts str(...) denote, in hundredths
\* update_financials from its try block to the response, for the instance
\* `financial` the view holds in memory and the table as it is when
\* financial.save() runs: save() writes every column of the instance to row i
financials_save(actor, o, fuel_in, driver_in, client_in, insert_ok, table, i, financial) ==
    LET op == "update_financials"
        fuel_expenses == Decimal(PostGet(fuel_in, "0"))
        driver_cost == Decimal(PostGet(driver_in, "0"))
        old_fuel_expenses == financial.fuel_expenses
        old_driver_cost == financial.driver_cost
        old_profit == financial.profit
        \* Decimal(str(financial.client_cost)) is financial.client_cost
        client_cost == IF client_in = None THEN Some(financial.client_cost)
                       ELSE Decimal(client_in[1])
    IN
    IF fuel_expenses = None \/ driver_cost = None \/ client_cost = None THEN
        \* except Exception: the row get_or_create made stays
        /\ financials' = table
        /\ events' = events
        /\ last' = Response(op, actor, o, 400, FALSE, "InvalidOperation")
    ELSE
        LET saved == Recompute(SetCosts(financial, client_cost[1], fuel_expenses[1],
                                        driver_cost[1]))
            logged == old_fuel_expenses # fuel_expenses[1]
                        \/ old_driver_cost # driver_cost[1]
        IN  /\ (logged /\ insert_ok) => Len(events) < MaxEvents
            /\ financials' = [table EXCEPT ![i] = saved]
            /\ events' = IF logged /\ insert_ok
                         THEN financials_event(o,
                                [old_fuel_expenses |-> old_fuel_expenses,
                                 new_fuel_expenses |-> fuel_expenses[1],
                                 old_driver_cost |-> old_driver_cost,
                                 new_driver_cost |-> driver_cost[1],
                                 old_profit |-> old_profit,
                                 new_profit |-> saved.profit,
                                 user |-> users[actor].username])
                         ELSE events
            \* (when the INSERT raises, the view's except answers 400 after
            \* financial.save() has been committed)
            /\ last' = IF logged /\ ~insert_ok
                       THEN Response(op, actor, o, 400, FALSE, "DatabaseError")
                       ELSE Response(op, actor, o, 200, TRUE, "")

\* the part of update_financials after the decorators and the order lookup,
\* run without another request in between: get_or_create, then the rest
financials_body(actor, o, fuel_in, driver_in, client_in, insert_ok) ==
    LET got == get_or_create(o, Some(0))
    IN  financials_save(actor, o, fuel_in, driver_in, client_in, insert_ok,
                        got.table, got.i, got.table[got.i])

\* update_financials(request, order_id) behind login_required, role_required
\* and require_POST; insert_ok as in update_order_status_with
update_financials_with(actor, o, method, fuel_in, driver_in, client_in, insert_ok) ==
    LET op == "update_financials"
    IN
    /\ UNCHANGED <<users, orders, now, inflight>>
    /\ IF actor = Anonymous THEN
          /\ last' = Response(op, actor, o, 302, FALSE, "login")
          /\ UNCHANGED <<financials, events>>
       ELSE IF ~MayUpdate(actor) THEN
          /\ last' = Response(op, actor, o, 403, FALSE, "Forbidden")
          /\ UNCHANGED <<financials, events>>
       ELSE IF method # "POST" THEN
          /\ last' = Response(op, actor, o, 405, FALSE, "Method not allowed")
          /\ UNCHANGED <<financials, events>>
       ELSE IF o \notin DOMAIN orders THEN
          /\ last' = Response(op, actor, o, 404, FALSE, "Not found")
          /\ UNCHANGED <<financials, events>>
       ELSE financials_body(actor, o, fuel_in, driver_in, client_in, insert_ok)

\* update_financials on a database that takes every INSERT
update_financials(actor, o, method, fuel_in, driver_in, client_in) ==
    update_financials_with(actor, o, method, fuel_in, driver_in, client_in, TRUE)

\* the requests sent to update_financials: every POST of a dispatcher, a POST
\* of a manager, and one request for each refusal decided before the fields
\* are read
FinancialsRequests ==
    [actor : {"dispatcher_a"}, order : OrderArgs, method : {"POST"},
     fuel_expenses : FuelInputs, driver_cost : DriverCostInputs,
     client_cost : ClientCostInputs]
    \cup [actor : Actors, order : OrderArgs, method : {"GET"},
          fuel_expenses : {None}, driver_cost : {None}, client_cost : {None}]
    \cup [actor : {"manager_a", "driver_a", Anonymous}, order : OrderArgs,
          method : {"POST"},
          fuel_expenses : {None}, driver_cost : {None}, client_cost : {None}]

NextFinancials ==
    \E r \in FinancialsRequests :
        update_financials(r.actor, r.order, r.method, r.fuel_expenses, r.driver_cost,
                          r.client_cost)

SpecFinancials == InitViews /\ [][NextFinancials]_vars

\* the persisted numeric values of a Financial row
Numbers(row) == <<row.client_cost, row.driver_cost, row.fuel_expenses, row.profit>>

\* C14: update_financials appends a financials_updated event exactly when one
\* of the persisted values client_cost, driver_cost, fuel_expenses, profit
\* differs after the call from before it.
C14_EventIffNumbersChanged ==
    [][ \A actor \in {last'.actor} \cap UserIds, o \in {last'.order} \cap OrderIds,
           fuel_in \in FuelInputs, driver_in \in DriverCostInputs,
           client_in \in ClientCostInputs :
          ( /\ MayUpdate(actor)
            /\ RowsOf(o) # {}
            /\ update_financials(actor, o, "POST", fuel_in, driver_in, client_in)
            /\ last'.success ) =>
                \A i \in RowsOf(o) :
                    IF Numbers(financials'[i]) # Numbers(financials[i])
                    THEN /\ Len(events') = Len(events) + 1
                         /\ Last(events').event_type = "financials_updated"
                         /\ Last(events').order = o
                    ELSE events' = events ]_vars

\* C15: update_financials applies only the fields the request carries: an
\* omitted driver_cost or client_cost keeps its value, and profit is computed
\* from the kept driver_cost.
C15_OmittedFieldsKept ==
    [][ \A actor \in {last'.actor} \cap UserIds, o \in {last'.order} \cap OrderIds,
           fuel_in \in FuelInputs, driver_in \in DriverCostInputs,
           client_in \in ClientCostInputs :
          ( /\ MayUpdate(actor)
            /\ RowsOf(o) # {}
            /\ update_financials(actor, o, "POST", fuel_in, driver_in, client_in)
            /\ last'.success ) =>
                \A i \in RowsOf(o) :
                    /\ driver_in = None =>
                          financials'[i].driver_cost = financials[i].driver_cost
                    /\ client_in = None =>
                          financials'[i].client_cost = financials[i].client_cost
                    /\ financials'[i].profit = Profit(financials'[i]) ]_vars

(***************************************************************************)
(* views.request_detail and views.edit_order                               *)
(***************************************************************************)
\* request.user.role == 'driver' and order.driver == request.user, on the
\* Order instance a view holds in memory
Drives(actor, order) == users[actor].role = "driver" /\ order.driver = Some(actor)

\* IsAssignedDriver for every account with the driver role
IsAssignedDriverAnyDriver(actor, o) == users[actor].role = "driver"

\* the same test on the stored row of o
IsAssignedDriver(actor, o) == Drives(actor, orders[o])

\* request_detail(request, order_id): the page of an order, for any method
request_detail(actor, o, method) ==
    LET op == "request_detail"
    IN
    /\ UNCHANGED <<users, events, now, inflight>>
    /\ IF actor = Anonymous THEN
          /\ last' = Response(op, actor, o, 302, FALSE, "login")
          /\ UNCHANGED <<orders, financials>>
       ELSE IF o \notin DOMAIN orders THEN
          /\ last' = Response(op, actor, o, 404, FALSE, "Not found")
          /\ UNCHANGED <<orders, financials>>
       ELSE
          /\ financials' = get_or_create(o, Some(0)).table
          /\ orders' = IF IsAssignedDriver(actor, o) /\ ~orders[o].is_viewed_by_driver
                       THEN [orders EXCEPT ![o].is_viewed_by_driver = TRUE]
                       ELSE orders
          /\ last' = Response(op, actor, o, 200, TRUE, "")

\* values of the POST fields 'driver' and 'vehicle' of the edit form (None: the
\* empty choice or an absent field); a driver field may carry any account's id
DriverInputs == {None} \cup {Some(u) : u \in UserIds}

VehicleInputs == {None} \cup {Some(v) : v \in Vehicles}

\* OrderEditForm.is_valid(): driver is empty or an account with the driver
\* role, vehicle is empty or a Vehicle, status is one of Order.Status
OrderEditForm_is_valid(driver_in, vehicle_in, status_in) ==
    /\ driver_in = None \/ driver_in[1] \in Drivers
    /\ vehicle_in = None \/ vehicle_in[1] \in Vehicles
    /\ status_in \in OrderStatus

\* DriverOrderStatusForm.is_valid(): status is one of Order.Status
DriverOrderStatusForm_is_valid(status_in) == status_in \in OrderStatus

\* edit_order(request, order_id) with the POST fields driver, vehicle, status
edit_order(actor, o, method, driver_in, vehicle_in, status_in) ==
    LET op == "edit_order"
    IN
    /\ UNCHANGED <<users, financials, events, now, inflight>>
    /\ IF actor = Anonymous THEN
          /\ last' = Response(op, actor, o, 302, FALSE, "login")
          /\ UNCHANGED orders
       ELSE IF o \notin DOMAIN orders THEN
          /\ last' = Response(op, actor, o, 404, FALSE, "Not found")
          /\ UNCHANGED orders
       ELSE IF users[actor].role = "dispatcher" THEN
          IF method # "POST" THEN
             /\ last' = Response(op, actor, o, 200, TRUE, "")
             /\ UNCHANGED orders
          ELSE IF OrderEditForm_is_valid(driver_in, vehicle_in, status_in) THEN
             /\ orders' = [orders EXCEPT ![o].driver = driver_in,
                                         ![o].vehicle = vehicle_in,
                                         ![o].status = status_in]
             /\ last' = Response(op, actor, o, 302, TRUE, "")
          ELSE
             /\ last' = Response(op, actor, o, 200, FALSE, "form errors")
             /\ UNCHANGED orders
       ELSE IF IsAssignedDriver(actor, o) THEN
          IF method # "POST" THEN
             /\ last' = Response(op, actor, o, 200, TRUE, "")
             /\ UNCHANGED orders
          ELSE IF DriverOrderStatusForm_is_valid(status_in) THEN
             /\ orders' = [orders EXCEPT ![o].status = status_in]
             /\ last' = Response(op, actor, o, 302, TRUE, "")
          ELSE
             /\ last' = Response(op, actor, o, 200, FALSE, "form errors")
             /\ UNCHANGED orders
       ELSE
          /\ last' = Response(op, actor, o, 302, FALSE,
                              "You do not have permission to edit this order")
          /\ UNCHANGED orders

\* the drivers that send requests: driver_a is the driver of order_a
GateActors == {"driver_a", "driver_b"}

\* the requests sent to edit_order: a dispatcher's assignments, both drivers'
\* status changes, and one request for each refusal and each GET
EditRequests ==
    [actor : {"dispatcher_a"}, order : OrderArgs, method : {"POST"},
     driver : {None, Some("driver_a"), Some("driver_b"), Some("manager_a")},
     vehicle : {None, Some("vehicle_a")}, status : {"assigned", "pending"}]
    \cup [actor : GateActors, order : OrderArgs, method : {"POST"},
          driver : {None}, vehicle : {None},
          status : {"loading", "cancelled", "created", ""}]
    \cup [actor : Actors, order : OrderArgs, method : {"GET"},
          driver : {None}, vehicle : {None}, status : {"assigned"}]
    \cup [actor : {"manager_a", "dispatcher_b", Anonymous}, order : OrderIds,
          method : {"POST"},
          driver : {None}, vehicle : {None}, status : {"assigned"}]

\* update_order_status as a driver may call it
DriverStatusRequests ==
    [actor : GateActors, order : OrderIds, method : {"POST"}, status : {"loading"}]

NextEdit ==
    \/ \E r \in EditRequests :
          edit_order(r.actor, r.order, r.method, r.driver, r.vehicle, r.status)
    \/ \E r \in DriverStatusRequests :
          update_order_status(r.actor, r.order, r.method, r.status)

SpecEdit == InitViews /\ [][NextEdit]_vars

\* C13: an assignment that changes the driver or the vehicle of an order
\* appends exactly one assigned event holding driver_id and vehicle_id; an
\* assignment that changes neither appends none.
C13_AssignmentLogged ==
    [][ \A actor \in {last'.actor} \cap UserIds, o \in {last'.order} \cap OrderIds,
           driver_in \in DriverInputs, vehicle_in \in VehicleInputs,
           status_in \in OrderStatus :
          ( /\ users[actor].role = "dispatcher"
            /\ edit_order(actor, o, "POST", driver_in, vehicle_in, status_in)
            /\ last'.success ) =>
                IF orders'[o].driver # orders[o].driver
                     \/ orders'[o].vehicle # orders[o].vehicle
                THEN /\ Len(events') = Len(events) + 1
                     /\ Last(events').event_type = "assigned"
                     /\ Last(events').order = o
                     /\ Last(events').event_data.driver_id = orders'[o].driver
                     /\ Last(events').event_data.vehicle_id = orders'[o].vehicle
                ELSE events' = events ]_vars

\* the statuses the claim lets a driver set
DriverStatuses == {"loading", "in_transit", "delivered"}

\* C17: a step made by a driver changes the status of an order only if that
\* driver is the order's driver, and only to loading, in_transit or delivered.
C17_DriverStatusChanges ==
    [][ \A o \in OrderIds :
          ( /\ last'.actor \in Drivers
            /\ orders'[o].status # orders[o].status ) =>
                /\ orders[o].driver = Some(last'.actor)
                /\ orders'[o].status \in DriverStatuses ]_vars

\* the requests sent to request_detail, and the reassignments a dispatcher
\* makes between them
DetailRequests == [actor : Actors, order : OrderArgs, method : {"GET"}]

ReassignRequests ==
    [actor : {"dispatcher_a"}, order : OrderIds, method : {"POST"},
     driver : {None, Some("driver_a"), Some("driver_b")},
     vehicle : {Some("vehicle_a")}, status : {"assigned"}]

NextDetail ==
    \/ \E r \in DetailRequests : request_detail(r.actor, r.order, r.method)
    \/ \E r \in ReassignRequests :
          edit_order(r.actor, r.order, r.method, r.driver, r.vehicle, r.status)

SpecDetail == InitViews /\ [][NextDetail]_vars

\* the company an order belongs to: its client's
OrderCompany(o) == ClientCompany[orders[o].client]

\* C19: request_detail for an order whose client's company is not the
\* dispatcher's is refused (403, 404 or a redirect) and changes nothing; in
\* particular it creates no Financial.
C19_OtherCompanyRefused ==
    [][ \A actor \in {last'.actor} \cap UserIds, o \in {last'.order} \cap OrderIds :
          ( /\ users[actor].role = "dispatcher"
            /\ users[actor].company # OrderCompany(o)
            /\ request_detail(actor, o, "GET") ) =>
                /\ last'.code \in {302, 403, 404}
                /\ financials' = financials
                /\ orders' = orders
                /\ events' = events ]_vars

\* C20: is_viewed_by_driver changes only from false to true and only in a
\* request_detail of the order by its driver; a request_detail by anyone else
\* leaves it false, and one of a viewed order changes no order.
C20_ViewedByAssignedDriverOnly ==
    [][ /\ \A o \in OrderIds :
            orders'[o].is_viewed_by_driver # orders[o].is_viewed_by_driver =>
                /\ ~orders[o].is_viewed_by_driver
                /\ last'.op = "request_detail"
                /\ last'.order = o
                /\ orders[o].driver = Some(last'.actor)
        /\ \A actor \in {last'.actor} \cap UserIds, o \in {last'.order} \cap OrderIds,
              method \in Methods :
              request_detail(actor, o, method) =>
                  IF orders[o].driver = Some(actor) /\ ~orders[o].is_viewed_by_driver
                  THEN orders' = [orders EXCEPT ![o].is_viewed_by_driver = TRUE]
                  ELSE orders' = orders ]_vars

\* an order is viewed, and another order has just been read by a driver who
\* is not its driver and is still not viewed
C20_Witness ==
    /\ last.op = "request_detail"
    /\ last.code = 200
    /\ last.actor \in Drivers
    /\ last.order \in OrderIds
    /\ orders[last.order].driver # None
    /\ orders[last.order].driver # Some(last.actor)
    /\ ~orders[last.order].is_viewed_by_driver
    /\ \E o \in OrderIds : orders[o].is_viewed_by_driver

(***************************************************************************)
(* views.new_request                                                       *)
(***************************************************************************)
\* how many orders new_request may add
MaxNewOrders == 1

\* the primary keys (uuid4) new orders get, in the order they are handed out
NewOrderIds == <<"order_c", "order_d", "order_e">>

\* values of the POST fields 'client' (None: absent) and 'agreed_price' (None:
\* empty, the field is optional)
ClientInputs == {None} \cup {Some(c) : c \in Clients}

PriceInputs == {None, Some("15000.00")}

\* OrderForm.is_valid(): the client is one of the user's company, driver and
\* vehicle are as in OrderEditForm, status is one of Order.Status, and the
\* other required fields (cargo, places, dates) are filled in (complete)
OrderForm_is_valid(actor, client_in, driver_in, vehicle_in, status_in, complete) ==
    /\ client_in # None
    /\ ClientCompany[client_in[1]] = users[actor].company
    /\ driver_in = None \/ driver_in[1] \in Drivers
    /\ vehicle_in = None \/ vehicle_in[1] \in Vehicles
    /\ status_in \in OrderStatus
    /\ complete

\* new_request(request) with the POST fields of OrderForm
new_request(actor, method, client_in, driver_in, vehicle_in, status_in, price_in, complete) ==
    LET op == "new_request"
        created == Len(SelectSeq(NewOrderIds, LAMBDA id : id \in DOMAIN orders))
        id == NewOrderIds[created + 1]
    IN
    /\ UNCHANGED <<users, financials, events, now, inflight>>
    /\ IF actor = Anonymous THEN
          /\ last' = Response(op, actor, MissingOrder, 302, FALSE, "login")
          /\ UNCHANGED orders
       ELSE IF method # "POST" THEN
          /\ last' = Response(op, actor, MissingOrder, 200, TRUE, "")
          /\ UNCHANGED orders
       ELSE IF OrderForm_is_valid(actor, client_in, driver_in, vehicle_in, status_in,
                                  complete) THEN
          /\ created < MaxNewOrders
          /\ orders' = [o \in DOMAIN orders \cup {id} |->
                          IF o = id
                          THEN [client |-> client_in[1],
                                created_by |-> Some(actor),
                                driver |-> driver_in,
                                vehicle |-> vehicle_in,
                                status |-> status_in,
                                is_viewed_by_driver |-> FALSE,
                                agreed_price |-> IF price_in = None THEN None
                                                 ELSE Decimal(price_in[1]),
                                distance_km |-> None]
                          ELSE orders[o]]
          /\ last' = Response(op, actor, id, 302, TRUE, "")
       ELSE
          /\ last' = Response(op, actor, MissingOrder, 200, FALSE, "form errors")
          /\ UNCHANGED orders

\* the requests sent to new_request: the forms of a dispatcher and of a
\* driver, and one request of everyone else and for each method
CreateRequests ==
    [actor : {"dispatcher_a", "driver_a"}, method : {"POST"}, client : ClientInputs,
     driver : {None, Some("driver_a"), Some("manager_a")},
     vehicle : {None, Some("vehicle_a")}, status : {"created", "assigned", "pending"},
     agreed_price : PriceInputs, complete : BOOLEAN]
    \cup [actor : Actors, method : Methods, client : {Some("client_b")},
          driver : {None}, vehicle : {None}, status : {"created"},
          agreed_price : {None}, complete : {TRUE}]

NextCreate ==
    \E r \in CreateRequests :
        new_request(r.actor, r.method, r.client, r.driver, r.vehicle, r.status,
                    r.agreed_price, r.complete)

SpecCreate == InitViews /\ [][NextCreate]_vars

\* C18: orders are created by dispatchers only: an order-creation request of a
\* driver is refused and creates no Order.
C18_OnlyDispatchersCreate ==
    [][ /\ DOMAIN orders' # DOMAIN orders => users[last'.actor].role = "dispatcher"
        /\ \A actor \in {last'.actor} \cap Drivers,
              client_in \in ClientInputs, driver_in \in DriverInputs,
              vehicle_in \in VehicleInputs, status_in \in OrderStatus,
              price_in \in PriceInputs :
              new_request(actor, "POST", client_in, driver_in, vehicle_in, status_in,
                          price_in, TRUE) =>
                  /\ ~last'.success
                  /\ orders' = orders ]_vars

(***************************************************************************)
(* The role gate of the three update views                                 *)
(***************************************************************************)
\* requests to the three update views: a few of dispatcher_a that change the
\* database, and requests of both drivers (driver_a is the driver of order_a)
GateStatusRequests ==
    [actor : {"dispatcher_a"}, order : {"order_a"}, method : {"POST"},
     status : {"assigned", "loading"}]
    \cup [actor : GateActors, order : OrderArgs, method : Methods,
          status : {"loading"}]

GatePaymentRequests ==
    [actor : {"dispatcher_a"}, order : OrderIds, method : {"POST"},
     fully_paid : {Some("true")}, partial_amount : {""}]
    \cup [actor : GateActors, order : OrderArgs, method : Methods,
          fully_paid : {Some("true")}, partial_amount : {""}]

GateFinancialsRequests ==
    [actor : {"dispatcher_a"}, order : OrderIds, method : {"POST"},
     fuel_expenses : {None}, driver_cost : {Some("15000.00")}, client_cost : {None}]
    \cup [actor : GateActors, order : OrderArgs, method : Methods,
          fuel_expenses : {None}, driver_cost : {Some("15000.00")},
          client_cost : {None}]

NextGate ==
    \/ \E r \in GateStatusRequests :
          update_order_status(r.actor, r.order, r.method, r.status)
    \/ \E r \in GatePaymentRequests :
          update_payment_status(r.actor, r.order, r.method, r.fully_paid, r.partial_amount)
    \/ \E r \in GateFinancialsRequests :
          update_financials(r.actor, r.order, r.method, r.fuel_expenses, r.driver_cost,
                            r.client_cost)

SpecGate == InitViews /\ [][NextGate]_vars

\* C16: a logged-in caller who is neither dispatcher nor manager is refused by
\* update_payment_status, update_order_status and update_financials, whatever
\* the request carries, and the refused call changes no Order, no Financial
\* (none is created) and no OrderEvent.
C16_OtherRolesRefused ==
    [][ \A actor \in {last'.actor} \cap UserIds, o \in {last'.order} \cap OrderArgs,
           method \in Methods :
          users[actor].role \notin {"dispatcher", "manager"} =>
            /\ \A status_in \in StatusInputs :
                  update_order_status(actor, o, method, status_in) =>
                      /\ ~last'.success /\ last'.code = 403
                      /\ orders' = orders /\ financials' = financials
                      /\ events' = events
            /\ \A fully_paid_in \in FullyPaidInputs, amount_in \in AmountInputs :
                  update_payment_status(actor, o, method, fully_paid_in, amount_in) =>
                      /\ ~last'.success /\ last'.code = 403
                      /\ orders' = orders /\ financials' = financials
                      /\ events' = events
            /\ \A fuel_in \in FuelInputs, driver_in \in DriverCostInputs,
                  client_in \in ClientCostInputs :
                  update_financials(actor, o, method, fuel_in, driver_in, client_in) =>
                      /\ ~last'.success /\ last'.code = 403
                      /\ orders' = orders /\ financials' = financials
                      /\ events' = events ]_vars

\* the driver of an order was refused by update_financials while the order
\* had no Financial, and it still has none
C16_Witness ==
    /\ last.op = "update_financials"
    /\ last.code = 403
    /\ last.order \in OrderIds
    /\ orders[last.order].driver = Some(last.actor)
    /\ RowsOf(last.order) = {}
    /\ \E i \in DOMAIN financials : financials[i].order # last.order

(***************************************************************************)
(* accounts.views.delete_account_view                                      *)
(***************************************************************************)
\* DeleteUserOrders with on_delete=CASCADE on Order.driver
DeleteUserOrdersCascade(u) ==
    [o \in {x \in DOMAIN orders : orders[x].driver # Some(u)} |->
        [orders[o] EXCEPT
           !.created_by = IF orders[o].created_by = Some(u) THEN None ELSE @]]

\* user.delete() as the orders table sees it: Order.driver and
\* Order.created_by are on_delete=SET_NULL
DeleteUserOrders(u) ==
    [o \in DOMAIN orders |->
        [orders[o] EXCEPT
           !.driver = IF orders[o].driver = Some(u) THEN None ELSE @,
           !.created_by = IF orders[o].created_by = Some(u) THEN None ELSE @]]

\* delete_account_view(request): the logged-in user deletes the own account;
\* Financial.order and OrderEvent.order are on_delete=CASCADE, so the rows
\* of an order that goes go with it
delete_account_view(actor, method) ==
    LET op == "delete_account_view"
        kept == DeleteUserOrders(actor)
    IN
    /\ UNCHANGED <<now, inflight>>
    /\ IF actor = Anonymous THEN
          /\ last' = Response(op, actor, MissingOrder, 302, FALSE, "login")
          /\ UNCHANGED <<users, orders, financials, events>>
       ELSE IF method # "POST" THEN
          /\ last' = Response(op, actor, MissingOrder, 200, TRUE, "")
          /\ UNCHANGED <<users, orders, financials, events>>
       ELSE
          /\ users' = [u \in DOMAIN users \ {actor} |-> users[u]]
          /\ orders' = kept
          /\ financials' = SelectSeq(financials, LAMBDA f : f.order \in DOMAIN kept)
          /\ events' = SelectSeq(events, LAMBDA e : e.order \in DOMAIN kept)
          /\ last' = Response(op, actor, MissingOrder, 302, TRUE, "")

(***************************************************************************)
(* The views that write Financial rows and events, one after another       *)
(***************************************************************************)
LedgerStatusRequests ==
    [actor : {"dispatcher_a"}, order : {"order_b"}, method : {"POST"},
     status : {"assigned"}]

LedgerPaymentRequests ==
    [actor : {"dispatcher_a"}, order : OrderIds, method : {"POST"},
     fully_paid : {Some("true")}, partial_amount : {""}]
    \cup [actor : {"dispatcher_a"}, order : OrderIds, method : {"POST"},
          fully_paid : {None}, partial_amount : {" 100.50 "}]

LedgerFinancialsRequests ==
    [actor : {"dispatcher_a"}, order : {"order_b"}, method : {"POST"},
     fuel_expenses : {None}, driver_cost : {None, Some("15000.00")},
     client_cost : {Some("60000.00")}]

LedgerDetailRequests ==
    [actor : {"dispatcher_a", "driver_b"}, order : OrderIds, method : {"GET"}]

LedgerDeleteRequests == [actor : {"driver_b", Anonymous}, method : Methods]

\* a request carries the session of an account that still exists, or none
LoggedIn(actor) == actor = Anonymous \/ actor \in DOMAIN users

NextLedger ==
    \/ \E r \in LedgerStatusRequests :
          LoggedIn(r.actor) /\ update_order_status(r.actor, r.order, r.method, r.status)
    \/ \E r \in LedgerPaymentRequests :
          /\ LoggedIn(r.actor)
          /\ update_payment_status(r.actor, r.order, r.method, r.fully_paid,
                                   r.partial_amount)
    \/ \E r \in LedgerFinancialsRequests :
          /\ LoggedIn(r.actor)
          /\ update_financials(r.actor, r.order, r.method, r.fuel_expenses,
                               r.driver_cost, r.client_cost)
    \/ \E r \in LedgerDetailRequests :
          LoggedIn(r.actor) /\ request_detail(r.actor, r.order, r.method)
    \/ \E r \in LedgerDeleteRequests :
          LoggedIn(r.actor) /\ delete_account_view(r.actor, r.method)

SpecLedger == InitViews /\ [][NextLedger]_vars

\* the views that begin with Financial.objects.get_or_create
EnsuringViews == {"request_detail", "update_payment_status", "update_financials"}

\* the Financial row of order o in a table that has one
RowOf(tbl, o) == tbl[CHOOSE i \in DOMAIN tbl : tbl[i].order = o]

\* C21: the first get_or_create for an order, from any view, makes a Financial
\* with client_cost = agreed_price (0 when null), driver_cost = 0 and
\* third_party_cost = 0; a later one leaves the existing row as it is: what
\* the view itself does not assign keeps its value.
C21_EnsureFinancialIdempotent ==
    [][ \A o \in {last'.order} \cap OrderIds :
          ( /\ last'.op \in EnsuringViews
            /\ RowsOf(o)' # {} ) =>
              LET new == RowOf(financials', o)
              IN  IF RowsOf(o) = {}
                  THEN /\ new.third_party_cost = Some(0)
                       /\ last'.op # "update_financials" =>
                             /\ new.client_cost = OrZero(orders[o].agreed_price)
                             /\ new.driver_cost = 0
                  ELSE LET old == RowOf(financials, o)
                       IN  /\ Len(financials') = Len(financials)
                           /\ last'.op = "request_detail" => financials' = financials
                           /\ last'.op = "update_payment_status" =>
                                 Numbers(new) = Numbers(old)
                           /\ new.third_party_cost = old.third_party_cost
                           /\ last'.op = "update_financials" =>
                                 /\ new.payment_status = old.payment_status
                                 /\ new.payment_plan = old.payment_plan ]_vars

\* C22: the event log is append-only: every step keeps the events there were,
\* in place and unchanged, and at most adds events after them.
C22_EventLogAppendOnly ==
    [][ /\ Len(events') >= Len(events)
        /\ SubSeq(events', 1, Len(events)) = events ]_vars

\* an order's log holds a financials_updated event followed by another event,
\* and the order's driver has just deleted the own account
C22_Witness ==
    /\ last.op = "delete_account_view" /\ last.success
    /\ Len(events) = 2
    /\ events[1].event_type = "financials_updated"
    /\ events[1].order = events[2].order
    /\ orders[events[1].order].driver = None

\* OrderEvent.EventType
EventType ==
    {"assigned", "loaded", "departed", "temperature_violation", "delivered",
     "document_signed", "status_changed", "payment_updated", "location_update"}

\* C28: the event_type of every OrderEvent is one of OrderEvent.EventType.
C28_EventTypeInEnum == \A k \in DOMAIN events : events[k].event_type \in EventType

\* C29: a Financial whose payment_status is partially_paid or paid is never
\* unpaid again, whatever update_payment_status, update_financials and
\* request_detail calls follow.
C29_NeverUnpaidAgain ==
    [][ \A o \in OrderIds :
          ( /\ RowsOf(o) # {}
            /\ RowOf(financials, o).payment_status # "unpaid" ) =>
                /\ RowsOf(o)' # {}
                /\ RowOf(financials', o).payment_status # "unpaid" ]_vars

\* the costs of a partially paid or paid order have just been changed by
\* update_financials
C29_Witness ==
    /\ last.op = "update_financials" /\ last.success
    /\ last.order \in OrderIds
    /\ RowsOf(last.order) # {}
    /\ RowOf(financials, last.order).payment_status \in {"partially_paid", "paid"}
    /\ RowOf(financials, last.order).driver_cost = 1500000
    /\ RowOf(financials, last.order).client_cost = 6000000
    /\ \E k \in DOMAIN events :
          events[k].order = last.order /\ events[k].event_type = "payment_updated"

C30_MalformedNumberIsValidationError ==
    [][ \A actor \in {last'.actor} \cap UserIds, o \in {last'.order} \cap OrderIds :
          MayUpdate(actor) =>
            /\ \A fully_paid_in \in FullyPaidInputs \ {Some("true")},
                  amount_in \in AmountInputs :
                  ( /\ Strip(amount_in) # ""
                    /\ Decimal(Strip(amount_in)) = None
                    /\ update_payment_status(actor, o, "POST", fully_paid_in, amount_in) ) =>
                        /\ ~last'.success
                        /\ last'.code = 400
                        /\ events' = events
                        /\ \A i \in DOMAIN financials : financials'[i] = financials[i]
            /\ \A fuel_in \in FuelInputs, driver_in \in DriverCostInputs,
                  client_in \in ClientCostInputs :
                  ( /\ \E f \in {fuel_in, driver_in, client_in} :
                          f # None /\ Decimal(f[1]) = None
                    /\ update_financials(actor, o, "POST", fuel_in, driver_in, client_in) ) =>
                        /\ ~last'.success
                        /\ last'.code = 400
                        /\ events' = events
                        /\ \A i \in DOMAIN financials : financials'[i] = financials[i] ]_vars

\* the requests sent to update_financials with costs of either sign
CostRequests ==
    [actor : {"dispatcher_a"}, order : OrderArgs, method : {"POST"},
     fuel_expenses : {None}, driver_cost : {None, Some("15000.00"), Some("-5")},
     client_cost : {None, Some("60000.00"), Some("-5")}]

NextCosts ==
    \E r \in CostRequests :
        update_financials(r.actor, r.order, r.method, r.fuel_expenses, r.driver_cost,
                          r.client_cost)

SpecCosts == InitViews /\ [][NextCosts]_vars

\* C27: client_cost, driver_cost and third_party_cost of every Financial are
\* >= 0 (an update_financials request with a negative cost stores nothing).
C27_CostsNonNegative ==
    \A i \in DOMAIN financials :
        /\ financials[i].client_cost >= 0
        /\ financials[i].driver_cost >= 0
        /\ OrZero(financials[i].third_party_cost) >= 0

(***************************************************************************)
(* The history of an order: order.events.all()                             *)
(***************************************************************************)
\* how far the clock runs
MaxTime == 1

\* time passes between two requests
Tick ==
    /\ now < MaxTime
    /\ now' = now + 1
    /\ UNCHANGED <<users, orders, financials, events, last, inflight>>

\* the rows of order_events that belong to order o, by position (the position
\* is the order of insertion)
EventRowsOf(o) == {k \in DOMAIN events : events[k].order = o}

\* Meta.ordering = ['-created_at']: what ORDER BY created_at DESC may return
\* for the events of order o, as sequences of positions.  Rows with equal
\* created_at come in whatever order the database produces them.
OrderedByCreatedAtDesc(o) ==
    LET S == EventRowsOf(o)
        n == Cardinality(S)
    IN  {res \in [1..n -> S] :
            /\ \A i, j \in 1..n : i # j => res[i] # res[j]
            /\ \A i, j \in 1..n :
                  i < j => events[res[i]].created_at >= events[res[j]].created_at}

\* list(order.events.all()): one read of the history of order o
history(o) ==
    /\ \E res \in OrderedByCreatedAtDesc(o) :
          last' = [op |-> "history", actor |-> Anonymous, order |-> o, code |-> 0,
                   success |-> TRUE, error |-> "", result |-> res]
    /\ UNCHANGED <<users, orders, financials, events, now, inflight>>

HistoryStatusRequests ==
    [actor : {"dispatcher_a"}, order : OrderIds, method : {"POST"},
     status : {"assigned", "loading", "in_transit"}]

NextHistory ==
    \/ \E r \in HistoryStatusRequests :
          update_order_status(r.actor, r.order, r.method, r.status)
    \/ Tick
    \/ \E o \in OrderIds : history(o)

SpecHistory == InitViews /\ [][NextHistory]_vars

\* C23: a read of the history returns the order's events newest first, and
\* events with equal created_at in an order fixed by their insertion: a
\* second read of the same log returns what the first one did.
C23_HistoryNewestFirstStable ==
    [][ last'.op = "history" =>
          LET res == last'.result
          IN  /\ \A i, j \in DOMAIN res :
                    i < j => events'[res[i]].created_at >= events'[res[j]].created_at
              /\ ( /\ last.op = "history"
                   /\ last.order = last'.order
                   /\ events' = events ) => res = last.result ]_vars

(***************************************************************************)
(* Payment events                                                          *)
(***************************************************************************)
\* payment_status of the Financial of order o in a table; the row that
\* get_or_create would insert starts unpaid
PaymentStatusOf(tbl, o) ==
    IF \E i \in DOMAIN tbl : tbl[i].order = o
    THEN tbl[CHOOSE i \in DOMAIN tbl : tbl[i].order = o].payment_status
    ELSE "unpaid"

PaymentLogFollowsStatus ==
    \A o \in OrderIds :
        LET log == EventsOf(events, o)
            ActionOf(st) == IF st = "paid" THEN "marked_as_paid" ELSE "partial_payment"
        IN  /\ \A k \in 1..Len(log) : log[k].event_type = "payment_updated"
            /\ \A k \in 1..(Len(log) - 1) :
                  log[k].event_data.action # log[k + 1].event_data.action
            /\ IF PaymentStatusOf(financials, o) = "unpaid"
               THEN log = <<>>
               ELSE /\ log # <<>>
                    /\ Last(log).event_data.action = ActionOf(PaymentStatusOf(financials, o))

AtomicStatusRequests ==
    [actor : {"dispatcher_a"}, order : {"order_a"}, method : {"POST"},
     status : {"assigned", "loading"}, insert_ok : BOOLEAN]

AtomicPaymentRequests ==
    [actor : {"dispatcher_a"}, order : {"order_a"}, method : {"POST"},
     fully_paid : {None, Some("true")}, partial_amount : {" 100.50 "},
     insert_ok : BOOLEAN]

AtomicFinancialsRequests ==
    [actor : {"dispatcher_a"}, order : {"order_a"}, method : {"POST"},
     fuel_expenses : {None}, driver_cost : {None, Some("15000.00")},
     client_cost : {None}, insert_ok : BOOLEAN]

NextAtomic ==
    \/ \E r \in AtomicStatusRequests :
          update_order_status_with(r.actor, r.order, r.method, r.status, r.insert_ok)
    \/ \E r \in AtomicPaymentRequests :
          update_payment_status_with(r.actor, r.order, r.method, r.fully_paid,
                                     r.partial_amount, r.insert_ok)
    \/ \E r \in AtomicFinancialsRequests :
          update_financials_with(r.actor, r.order, r.method, r.fuel_expenses,
                                 r.driver_cost, r.client_cost, r.insert_ok)

SpecAtomic == InitViews /\ [][NextAtomic]_vars

\* C24: a mutation and its event are one unit: a step of the update views
\* that changes an order's status or payment_status appends the event of the
\* change, and a step that answers with an error leaves the cost figures of
\* the order's Financial as they were.
C24_MutationAndEventAtomic ==
    [][ \A o \in {last'.order} \cap OrderIds :
          /\ orders'[o].status # orders[o].status =>
                /\ Len(events') = Len(events) + 1
                /\ Last(events').event_type = "status_changed"
                /\ Last(events').order = o
          /\ PaymentStatusOf(financials', o) # PaymentStatusOf(financials, o) =>
                /\ Len(events') = Len(events) + 1
                /\ Last(events').event_type = "payment_updated"
                /\ Last(events').order = o
          /\ (~last'.success /\ RowsOf(o) # {}) =>
                Numbers(RowOf(financials', o)) = Numbers(RowOf(financials, o)) ]_vars

(***************************************************************************)
(* update_payment_status served by two workers at once                     *)
(***************************************************************************)
\* The view takes no lock and opens no transaction, so each of its queries
\* is a statement of its own and another worker's statements may fall
\* between them.  A request that passed the login, role, method and order
\* checks runs in two steps: first Financial.objects.get_or_create and
\* old_status = financial.payment_status, on the instance it then holds ...
payment_read(w, actor, o, fully_paid_in, amount_in) ==
    /\ inflight[w] = None
    /\ actor # Anonymous
    /\ MayUpdate(actor)
    /\ o \in DOMAIN orders
    /\ LET got == get_or_create(o, None)
       IN  /\ financials' = got.table
           /\ inflight' = [inflight EXCEPT ![w] =
                             Some([op |-> "update_payment_status",
                                   actor |-> actor, order |-> o,
                                   fully_paid |-> fully_paid_in,
                                   partial_amount |-> amount_in,
                                   financial |-> got.table[got.i]])]
    /\ UNCHANGED <<users, orders, events, now, last>>

\* ... then the assignments to that instance, financial.save(), the event
\* decided by the old_status it read, and the response
payment_write(w) ==
    /\ inflight[w] # None
    /\ inflight[w][1].op = "update_payment_status"
    /\ LET r == inflight[w][1]
       IN  /\ RowsOf(r.order) # {}
           /\ payment_save(r.actor, r.order, r.fully_paid, r.partial_amount, TRUE,
                           financials, CHOOSE i \in RowsOf(r.order) : TRUE,
                           r.financial)
    /\ inflight' = [inflight EXCEPT ![w] = None]
    /\ UNCHANGED <<users, orders, now>>

RaceRequests ==
    [actor : {"dispatcher_a"}, order : OrderIds,
     fully_paid : {None, Some("true")}, partial_amount : {" 100.50 "}]

NextRace ==
    \/ \E w \in Workers, r \in RaceRequests :
          payment_read(w, r.actor, r.order, r.fully_paid, r.partial_amount)
    \/ \E w \in Workers : payment_write(w)

SpecRace == InitViews /\ [][NextRace]_vars

\* C25: concurrent update_payment_status requests on one order behave as if
\* they ran one after the other: a payment_updated event is appended only by
\* a request that changes the stored payment_status, so of two concurrent
\* full payments of an unpaid order only the first appends an event.
C25_ConcurrentPaymentsSerialized ==
    [][ \A o \in OrderIds :
          (/\ Len(events') = Len(events) + 1
           /\ Last(events').order = o
           /\ Last(events').event_type = "payment_updated") =>
              PaymentStatusOf(financials', o) # PaymentStatusOf(financials, o) ]_vars

(***************************************************************************)
(* Rejected payments                                                       *)
(***************************************************************************)
\* C31: an update_payment_status request that is rejected changes nothing:
\* an order that had no Financial before the rejected request has none
\* after it.
C31_RejectedPaymentCreatesNothing ==
    [][ \A o \in {last'.order} \cap OrderIds :
          ( /\ last'.op = "update_payment_status"
            /\ ~last'.success
            /\ RowsOf(o) = {} ) =>
                financials' = financials ]_vars

(***************************************************************************)
(* The lifecycle of an order                                               *)
(***************************************************************************)
\* the place of a status on the line created -> assigned -> loading ->
\* in_transit -> delivered -> completed; delayed stands where in_transit does
LifecycleRank(status) ==
    CASE status = "created"    -> 0
      [] status = "assigned"   -> 1
      [] status = "loading"    -> 2
      [] status = "in_transit" -> 3
      [] status = "delayed"    -> 3
      [] status = "delivered"  -> 4
      [] status = "completed"  -> 5
      [] status = "cancelled"  -> 6

\* a transition that leaves no final status and moves forward, or cancels
Forward(old_status, new_status) ==
    /\ old_status \notin {"completed", "cancelled"}
    /\ new_status = "cancelled" \/ LifecycleRank(new_status) >= LifecycleRank(old_status)

\* C32: every change of an order's status made by update_order_status or
\* edit_order moves forward along the lifecycle: a completed or cancelled
\* order keeps its status and no order returns to an earlier status.
C32_StatusMovesForward ==
    [][ \A o \in DOMAIN orders \cap DOMAIN orders' :
          orders'[o].status # orders[o].status =>
              Forward(orders[o].status, orders'[o].status) ]_vars

(***************************************************************************)
(* Status and audit trail                                                  *)
(***************************************************************************)
\* the status_changed events of order o, oldest first
StatusEventsOf(o) ==
    SelectSeq(events, LAMBDA e : e.order = o /\ e.event_type = "status_changed")

\* C33: the status of an order is the new_status of its latest
\* status_changed event, and the status it was created with (created, for
\* the orders of the initial state) when it has no such event.
C33_StatusAgreesWithLog ==
    \A o \in OrderIds \cap DOMAIN orders :
        orders[o].status = IF StatusEventsOf(o) = <<>>
                           THEN "created"
                           ELSE Last(StatusEventsOf(o)).event_data.new_status

(***************************************************************************)
(* update_order_status served by two workers at once                       *)
(***************************************************************************)
\* Like update_payment_status, the view takes no lock and opens no
\* transaction.  A request that passed the login, role and method checks
\* runs in two steps: first order = get_object_or_404(Order, id=order_id),
\* the instance it then holds ...
status_read(w, actor, o, status_in) ==
    /\ inflight[w] = None
    /\ actor # Anonymous
    /\ MayUpdate(actor)
    /\ o \in DOMAIN orders
    /\ inflight' = [inflight EXCEPT ![w] =
                      Some([op |-> "update_order_status", actor |-> actor,
                            order |-> o, status |-> status_in,
                            instance |-> orders[o]])]
    /\ UNCHANGED <<users, orders, financials, events, now, last>>

\* ... then the checks of the new status against that instance, order.save(),
\* the event with the old_status it read, and the response
status_write(w) ==
    /\ inflight[w] # None
    /\ inflight[w][1].op = "update_order_status"
    /\ LET r == inflight[w][1]
       IN  /\ r.order \in DOMAIN orders
           /\ status_save(r.actor, r.order, r.status, TRUE, r.instance)
    /\ inflight' = [inflight EXCEPT ![w] = None]
    /\ UNCHANGED <<users, financials, now>>

StatusRaceRequests ==
    [actor : {"dispatcher_a"}, order : OrderIds, status : {"assigned", "loading"}]

NextStatusRace ==
    \/ \E w \in Workers, r \in StatusRaceRequests :
          status_read(w, r.actor, r.order, r.status)
    \/ \E w \in Workers : status_write(w)

SpecStatusRace == InitViews /\ [][NextStatusRace]_vars

\* C34: the status_changed events of an order form a chain, also when
\* update_order_status requests overlap: each event's old_status is the
\* new_status of the status_changed event before it, and the new_status of
\* the last one is the status of the order.
C34_StatusEventsChain ==
    \A o \in OrderIds \cap DOMAIN orders :
        LET log == StatusEventsOf(o)
        IN  /\ \A k \in 2..Len(log) :
                  log[k].event_data.old_status = log[k-1].event_data.new_status
            /\ log # <<>> => Last(log).event_data.new_status = orders[o].status

(***************************************************************************)
(* request_detail served while another request changes the order           *)
(***************************************************************************)
\* request_detail takes no lock either.  Its first step loads the order and
\* runs Financial.objects.get_or_create ...
detail_read(w, actor, o) ==
    /\ inflight[w] = None
    /\ actor # Anonymous
    /\ o \in DOMAIN orders
    /\ financials' = get_or_create(o, Some(0)).table
    /\ inflight' = [inflight EXCEPT ![w] =
                      Some([op |-> "request_detail", actor |-> actor,
                            order |-> o, instance |-> orders[o]])]
    /\ UNCHANGED <<users, orders, events, now, last>>

\* ... its second step tests the instance it loaded and, for the assigned
\* driver's first visit, sets the flag on it and calls order.save(), which
\* writes every column of the instance
detail_write(w) ==
    /\ inflight[w] # None
    /\ inflight[w][1].op = "request_detail"
    /\ LET r == inflight[w][1]
       IN  /\ r.order \in DOMAIN orders
           /\ orders' = IF Drives(r.actor, r.instance) /\ ~r.instance.is_viewed_by_driver
                        THEN [orders EXCEPT ![r.order] =
                                [r.instance EXCEPT !.is_viewed_by_driver = TRUE]]
                        ELSE orders
           /\ last' = Response("request_detail", r.actor, r.order, 200, TRUE, "")
    /\ inflight' = [inflight EXCEPT ![w] = None]
    /\ UNCHANGED <<users, financials, events, now>>

DetailRaceRequests == [actor : {"driver_a"}, order : {"order_a"}]

DetailRaceStatusRequests ==
    [actor : {"dispatcher_a"}, order : {"order_a"}, method : {"POST"},
     status : {"assigned", "loading"}]

DetailRaceEditRequests ==
    [actor : {"dispatcher_a"}, order : {"order_a"}, method : {"POST"},
     driver : {Some("driver_a"), Some("driver_b")},
     vehicle : {Some("vehicle_b")}, status : {"created"}]

NextDetailRace ==
    \/ \E w \in Workers, r \in DetailRaceRequests : detail_read(w, r.actor, r.order)
    \/ \E w \in Workers : detail_write(w)
    \/ \E r \in DetailRaceStatusRequests :
          update_order_status(r.actor, r.order, r.method, r.status)
    \/ \E r \in DetailRaceEditRequests :
          edit_order(r.actor, r.order, r.method, r.driver, r.vehicle, r.status)

SpecDetailRace == InitViews /\ [][NextDetailRace]_vars

\* C35: a request_detail request changes nothing of an order but
\* is_viewed_by_driver: the status, driver and vehicle another request
\* stored since request_detail loaded the order are still there after its
\* save.
C35_ViewedMarkKeepsOtherFields ==
    [][ \A o \in {last'.order} \cap DOMAIN orders :
          last'.op = "request_detail" =>
              [orders'[o] EXCEPT !.is_viewed_by_driver = TRUE] =
              [orders[o] EXCEPT !.is_viewed_by_driver = TRUE] ]_vars

(***************************************************************************)
(* update_financials served while payments are recorded                     *)
(***************************************************************************)
\* update_financials takes no lock and opens no transaction.  A request that
\* passed the decorators and the order lookup first runs
\* Financial.objects.get_or_create, which gives it the instance it holds ...
financials_read(w, actor, o, fuel_in, driver_in, client_in) ==
    /\ inflight[w] = None
    /\ actor # Anonymous
    /\ MayUpdate(actor)
    /\ o \in DOMAIN orders
    /\ LET got == get_or_create(o, Some(0))
       IN  /\ financials' = got.table
           /\ inflight' = [inflight EXCEPT ![w] =
                             Some([op |-> "update_financials",
                                   actor |-> actor, order |-> o,
                                   fuel_expenses |-> fuel_in,
                                   driver_cost |-> driver_in,
                                   client_cost |-> client_in,
                                   financial |-> got.table[got.i]])]
    /\ UNCHANGED <<users, orders, events, now, last>>

\* ... then the assignments to that instance, financial.save(), the event and
\* the response
financials_write(w) ==
    /\ inflight[w] # None
    /\ inflight[w][1].op = "update_financials"
    /\ LET r == inflight[w][1]
       IN  /\ RowsOf(r.order) # {}
           /\ financials_save(r.actor, r.order, r.fuel_expenses, r.driver_cost,
                              r.client_cost, TRUE, financials,
                              CHOOSE i \in RowsOf(r.order) : TRUE, r.financial)
    /\ inflight' = [inflight EXCEPT ![w] = None]
    /\ UNCHANGED <<users, orders, now>>

FinancialsRaceRequests ==
    [actor : {"dispatcher_a"}, order : OrderIds, fuel_expenses : {None},
     driver_cost : {None, Some("15000.00")}, client_cost : {None}]

FinancialsRacePaymentRequests ==
    [actor : {"dispatcher_a"}, order : OrderIds, method : {"POST"},
     fully_paid : {None, Some("true")}, partial_amount : {" 100.50 "}]

NextFinancialsRace ==
    \/ \E w \in Workers, r \in FinancialsRaceRequests :
          financials_read(w, r.actor, r.order, r.fuel_expenses, r.driver_cost,
                          r.client_cost)
    \/ \E w \in Workers : financials_write(w)
    \/ \E r \in FinancialsRacePaymentRequests :
          update_payment_status(r.actor, r.order, r.method, r.fully_paid,
                                r.partial_amount)

SpecFinancialsRace == InitViews /\ [][NextFinancialsRace]_vars

\* C36: update_financials leaves payment_status and payment_plan of the
\* order's Financial as they are stored when it saves: a payment recorded
\* since update_financials read the Financial is still there after its save.
C36_FinancialsKeepPayment ==
    [][ \A o \in {last'.order} \cap OrderIds :
          (last'.op = "update_financials" /\ RowsOf(o) # {}) =>
              /\ RowOf(financials', o).payment_status = RowOf(financials, o).payment_status
              /\ RowOf(financials', o).payment_plan = RowOf(financials, o).payment_plan ]_vars

(***************************************************************************)
(* What a financials_updated event records                                 *)
(***************************************************************************)
\* C37: the new_fuel_expenses, new_driver_cost and new_profit of a
\* financials_updated event are the values the update stored in the
\* Financial, and its old_ values are the values stored before the update.
C37_EventRecordsPersistedValues ==
    [][ \A o \in {last'.order} \cap OrderIds :
          ( /\ last'.op = "update_financials"
            /\ Len(events') = Len(events) + 1
            /\ Last(events').event_type = "financials_updated" ) =>
              LET data == Last(events').event_data
                  new == RowOf(financials', o)
              IN  /\ data.new_fuel_expenses = new.fuel_expenses
                  /\ data.new_driver_cost = new.driver_cost
                  /\ data.new_profit = new.profit
                  /\ RowsOf(o) # {} =>
                        /\ data.old_fuel_expenses = RowOf(financials, o).fuel_expenses
                        /\ data.old_driver_cost = RowOf(financials, o).driver_cost
                        /\ data.old_profit = RowOf(financials, o).profit ]_vars

(***************************************************************************)
(* Leaving paid                                                            *)
(***************************************************************************)
\* C38 as stated: a Financial that is paid is paid after every
\* update_payment_status call.
C38_PaidStaysPaid ==
    [][ \A o \in {last'.order} \cap OrderIds :
          ( /\ last'.op = "update_payment_status"
            /\ RowsOf(o) # {}
            /\ RowOf(financials, o).payment_status = "paid" ) =>
                RowOf(financials', o).payment_status = "paid" ]_vars

\* C38: update_payment_status never makes a paid Financial unpaid; a full
\* payment or a rejected request leaves it paid, and an accepted partial
\* payment, the request that replaces the payment plan, makes it
\* partially_paid and appends a payment_updated event saying partial_payment.
C38_PaidLeftOnlyByPartialPayment ==
    [][ \A o \in {last'.order} \cap OrderIds :
          ( /\ last'.op = "update_payment_status"
            /\ RowsOf(o) # {}
            /\ RowOf(financials, o).payment_status = "paid" ) =>
              LET old == RowOf(financials, o)
                  new == RowOf(financials', o)
              IN  /\ new.payment_status \in {"paid", "partially_paid"}
                  /\ new.payment_status = "partially_paid" =>
                        /\ last'.success
                        /\ Len(events') = Len(events) + 1
                        /\ Last(events').order = o
                        /\ Last(events').event_type = "payment_updated"
                        /\ Last(events').event_data.action = "partial_payment"
                  /\ (last'.success /\ new.payment_plan # old.payment_plan) =>
                        new.payment_status = "partially_paid" ]_vars

\* an order marked as paid has then taken a partial payment: it is
\* partially_paid, with the plan of that payment and both events in its log
C38_Witness ==
    /\ last.op = "update_payment_status" /\ last.success
    /\ last.order \in OrderIds
    /\ RowsOf(last.order) # {}
    /\ RowOf(financials, last.order).payment_status = "partially_paid"
    /\ RowOf(financials, last.order).payment_plan # None
    /\ Len(events) = 2
    /\ events[1].order = last.order /\ events[2].order = last.order
    /\ events[1].event_type = "payment_updated"
    /\ events[1].event_data.action = "marked_as_paid"
    /\ events[2].event_type = "payment_updated"
    /\ events[2].event_data.action = "partial_payment"

(***************************************************************************)
(* The viewed flag and reassignment                                        *)
(***************************************************************************)
\* home_view of a driver: requests.filter(is_viewed_by_driver=False).count()
\* over Order.objects.filter(driver=user), on the orders table tbl
unread_count(tbl, user) ==
    Cardinality({o \in DOMAIN tbl :
                    tbl[o].driver = Some(user) /\ ~tbl[o].is_viewed_by_driver})

\* C39: an order that edit_order gives to another driver is unread for that
\* driver: its is_viewed_by_driver is false after the reassignment, and it
\* counts among the new driver's unread orders.
C39_ReassignmentResetsViewed ==
    [][ \A o \in {last'.order} \cap DOMAIN orders :
          ( /\ last'.op = "edit_order"
            /\ orders'[o].driver # orders[o].driver
            /\ orders'[o].driver # None ) =>
                /\ ~orders'[o].is_viewed_by_driver
                /\ unread_count(orders', orders'[o].driver[1]) >= 1 ]_vars

====
